---- MODULE Spec2Model ----
(***************************************************************************)
(* Model of the mask keyframe / vertex tracking core of the media          *)
(* captioning tool:                                                        *)
(*   - MaskManager.get_interpolated_points   (src/app/mask_manager.py)     *)
(*   - Application.add_mask / add_keyframe / delete_mask / track_mask      *)
(*                                           (src/app/application.py)      *)
(*   - the keyframe tool of MaskManager      (src/app/mask_manager.py)     *)
(*   - track_points_with_consensus           (src/app/tracking.py)         *)
(*                                                                         *)
(* Coordinates are Python floats in the program.  They are modelled as     *)
(* exact rationals <<numerator, denominator>> in lowest terms, so that     *)
(* divisions (interpolation factor, means) are computed, not assumed.      *)
(***************************************************************************)
EXTENDS Integers, Sequences, FiniteSets, TLC

VARIABLES
    \* ---- Application / MaskManager / MediaViewer state
    masks,                \* current_project['masks'][media_id]: list of mask dicts;
                          \* the id "mask_<n>" is held as n
    active_tool,          \* MaskManager.active_tool: "none" | "keyframe"
    current_mask,         \* MaskManager.current_mask: the mask dict being edited, as its
                          \* position in masks (0: None)
    current_points,       \* MaskManager.current_points: the edit buffer
    original_points,      \* MaskManager.original_points
    current_points_owner, \* index of the keyframe of current_mask whose own list object
                          \* current_points is (0: a list of its own)
    editing_mask_id,      \* MaskManager.editing_mask_id (0: None)
    selected_point_index, \* MaskManager.selected_point_index (-1: none; 0-based)
    current_frame,        \* MaskManager.current_frame
    current_frame_index,  \* MediaViewer.current_frame_index
    canvas_masks,         \* polygons drawn by draw_all_masks (tag "mask")
    track_call,           \* the locals of track_mask while one of its dialogs is open
                          \* (NoTrackCall: no such call); stage: "config" | "complete"
                          \* | "failed"
    \* ---- MediaViewer playback
    playing,              \* MediaViewer.playing
    video_pos,            \* the frame video_capture.read() delivers next
    seek_pc,              \* the main thread inside next_frame / prev_frame / seek_video
    thread_pc,            \* video_playback_thread's position in its loop
    \* ---- one call of get_interpolated_points on a stored mask
    q_mask,               \* the mask argument (as it is in memory)
    q_frame,              \* the frame argument
    q_result,             \* the returned list
    q_pc,                 \* "call" | "returned" | "raised"
    q_last_frame,         \* the frame argument of the call before this one
    q_last_result,        \* what that call returned
    \* ---- one run of track_points_with_consensus
    t_pc,                 \* "start" | "loop" | "done"
    t_cfg,                \* the arguments of the call
    t_video,              \* number of frames cap.read() still delivers
    t_released,           \* cap.release() has been called
    tracked_points,       \* the trajectory built so far
    sample_points,        \* current_sample_points
    sample_offsets,       \* sample_offsets
    kalman_filters,       \* the filter bank
    t_log                 \* bookkeeping of the last loop iteration

appVars == <<masks, active_tool, current_mask, current_points, original_points,
             current_points_owner, editing_mask_id, selected_point_index, current_frame,
             current_frame_index, canvas_masks, track_call>>
viewerVars == <<playing, video_pos, seek_pc, thread_pc>>
interpVars == <<q_mask, q_frame, q_result, q_pc, q_last_frame, q_last_result>>
trackVars == <<t_pc, t_cfg, t_video, t_released, tracked_points, sample_points,
               sample_offsets, kalman_filters, t_log>>
vars == <<appVars, viewerVars, interpVars, trackVars>>

(***************************************************************************)
(* Exact arithmetic on floats: rationals in lowest terms.                  *)
(***************************************************************************)
Abs(n) == IF n < 0 THEN -n ELSE n

RECURSIVE Gcd(_, _)
Gcd(a, b) == IF b = 0 THEN a ELSE Gcd(b, a % b)

Rat(n, d) ==
    LET g == Gcd(Abs(n), Abs(d))
        s == IF d < 0 THEN -1 ELSE 1
    IN  <<(s * n) \div g, (s * d) \div g>>

R(n) == <<n, 1>>
RatAdd(a, b) == Rat(a[1] * b[2] + b[1] * a[2], a[2] * b[2])
RatSub(a, b) == Rat(a[1] * b[2] - b[1] * a[2], a[2] * b[2])
RatMul(a, b) == Rat(a[1] * b[1], a[2] * b[2])
RatDiv(a, b) == Rat(a[1] * b[2], a[2] * b[1])
RatLess(a, b) == a[1] * b[2] < b[1] * a[2]
RatAbs(a) == <<Abs(a[1]), a[2]>>

\* A point (x, y) with integer coordinates.
Pt(x, y) == <<R(x), R(y)>>

Min(a, b) == IF a <= b THEN a ELSE b
Max(a, b) == IF a >= b THEN a ELSE b

(***************************************************************************)
(* MaskManager.get_interpolated_points                                     *)
(***************************************************************************)
Keyframe(f, pts) == [frame |-> f, points |-> pts]

\* The scan "for keyframe in mask['keyframes']": prev is the last keyframe seen
\* with frame <= target, next the first one with frame > target, where the
\* loop breaks.  Returns <<prev, next>> as 1-based indices, 0 for None.
ScanKeyframes_FirstOfTies(kfs, frame, i, prev) ==
    LET S == { k \in DOMAIN kfs : kfs[k].frame <= frame }
        p == IF S = {} THEN 0
             ELSE CHOOSE k \in S : \A j \in S :
                      \/ kfs[j].frame < kfs[k].frame
                      \/ (kfs[j].frame = kfs[k].frame /\ k <= j)
    IN  <<p, IF p < Len(kfs) THEN p + 1 ELSE 0>>

RECURSIVE ScanKeyframes(_, _, _, _)
ScanKeyframes(kfs, frame, i, prev) ==
    IF i > Len(kfs) THEN <<prev, 0>>
    ELSE IF kfs[i].frame <= frame THEN ScanKeyframes(kfs, frame, i + 1, i)
    ELSE <<prev, i>>

InterpolateFactor_Reversed(frame, prevFrame, nextFrame) ==
    RatDiv(R(nextFrame - frame), R(nextFrame - prevFrame))

\* factor = (frame - prev_keyframe['frame']) / total_frames
InterpolateFactor(frame, prevFrame, nextFrame) ==
    RatDiv(R(frame - prevFrame), R(nextFrame - prevFrame))

Lerp_Magnitude(p, n, factor) == RatAdd(p, RatMul(RatAbs(RatSub(n, p)), factor))

\* x = prev_point[0] + (next_point[0] - prev_point[0]) * factor
Lerp(p, n, factor) == RatAdd(p, RatMul(RatSub(n, p), factor))

\* An interpolation that yields one point only.
InterpolatePoints_FirstOnly(prevPts, nextPts, factor) == <<prevPts[1]>>

\* zip(prev_keyframe['points'], next_keyframe['points'])
InterpolatePoints(prevPts, nextPts, factor) ==
    [i \in 1..Min(Len(prevPts), Len(nextPts)) |->
        <<Lerp(prevPts[i][1], nextPts[i][1], factor),
          Lerp(prevPts[i][2], nextPts[i][2], factor)>>]

ClampStart_Last(kfs) == kfs[Len(kfs)].points

\* return mask['keyframes'][0]['points'].copy()
ClampStart(kfs) == kfs[1].points

ClampEnd_First(kfs) == kfs[1].points

\* return mask['keyframes'][-1]['points'].copy()
ClampEnd(kfs) == kfs[Len(kfs)].points

EmptyResult_Origin == <<Pt(0, 0)>>

\* if not mask['keyframes']: return []
EmptyResult == <<>>

\* The division of line 373 raises ZeroDivisionError when total_frames is 0.
ZeroDivision(prevFrame, nextFrame) == nextFrame - prevFrame = 0

\* points.copy() of keyframe k: the returned list is a list of its own.
CopiedList_Same(k) == k

CopiedList(k) == 0

\* The returned list; in "shared" the index of the keyframe whose own list
\* object is returned (0: a fresh list); in "raised" whether the call ends in
\* an exception instead of returning.
get_interpolated_points(mask, frame) ==
    LET kfs == mask.keyframes
        pn == ScanKeyframes(kfs, frame, 1, 0)
        prev == pn[1]
        next == pn[2]
    IN  IF Len(kfs) = 0 THEN [points |-> EmptyResult, shared |-> 0, raised |-> FALSE]
        ELSE IF prev = 0 THEN [points |-> ClampStart(kfs), shared |-> CopiedList(1), raised |-> FALSE]
        ELSE IF next = 0 THEN [points |-> ClampEnd(kfs), shared |-> CopiedList(Len(kfs)),
                                  raised |-> FALSE]
        ELSE IF kfs[next].frame - kfs[prev].frame = 0
             THEN [points |-> kfs[prev].points, shared |-> prev, raised |-> FALSE]
        ELSE IF ZeroDivision(kfs[prev].frame, kfs[next].frame)
             THEN [points |-> <<>>, shared |-> 0, raised |-> TRUE]
        ELSE [points |-> InterpolatePoints(kfs[prev].points, kfs[next].points,
                            InterpolateFactor(frame, kfs[prev].frame, kfs[next].frame)),
              shared |-> 0, raised |-> FALSE]

KeyframesAfterInterpolation_Cached(mask, frame) ==
    LET r == get_interpolated_points(mask, frame)
        pn == ScanKeyframes(mask.keyframes, frame, 1, 0)
    IN  IF pn[1] = 0 THEN mask.keyframes
        ELSE [mask.keyframes EXCEPT ![pn[1]] = Keyframe(frame, r.points)]

\* The mask's keyframe list after the call: the function only reads it.
KeyframesAfterInterpolation(mask, frame) == mask.keyframes

(***************************************************************************)
(* Values the variables of a component hold while another component is     *)
(* the one being exercised.                                                *)
(***************************************************************************)
NoMask == [id |-> 0, keyframes |-> <<>>]

NoTrackCall == <<>>

\* load_video has read the first frame; the playback thread runs, paused.
ViewerIdle ==
    /\ playing = FALSE
    /\ video_pos = 1
    /\ seek_pc = <<"idle">>
    /\ thread_pc = <<"loop">>

AppIdle ==
    /\ ViewerIdle
    /\ masks = <<>>
    /\ active_tool = "none"
    /\ current_mask = 0
    /\ current_points = <<>>
    /\ original_points = <<>>
    /\ current_points_owner = 0
    /\ editing_mask_id = 0
    /\ selected_point_index = -1
    /\ current_frame = 0
    /\ current_frame_index = 0
    /\ canvas_masks = <<>>
    /\ track_call = NoTrackCall

InterpIdle ==
    /\ q_mask = NoMask
    /\ q_frame = 0
    /\ q_result = <<>>
    /\ q_pc = "idle"
    /\ q_last_frame = 0
    /\ q_last_result = <<>>

TrackIdle ==
    /\ t_pc = "idle"
    /\ t_cfg = <<>>
    /\ t_video = 0
    /\ t_released = FALSE
    /\ tracked_points = <<>>
    /\ sample_points = <<>>
    /\ sample_offsets = <<>>
    /\ kalman_filters = <<>>
    /\ t_log = <<>>

(***************************************************************************)
(* SpecInterp: get_interpolated_points called on a stored mask whose       *)
(* keyframes are sorted by frame (the order every mutation restores).      *)
(***************************************************************************)
MaxKeyframes == 3

InterpFrames == {0, 5, 10}
InterpTargets == {-1, 0, 2, 5, 7, 10, 20}
InterpPointLists == { <<Pt(0, 0)>>, <<Pt(10, 20)>>, <<Pt(4, 4), Pt(1, 7)>> }

IsSorted(kfs) == \A i \in 1..(Len(kfs) - 1) : kfs[i].frame <= kfs[i + 1].frame

InterpKeyframeLists ==
    UNION { { kfs \in [1..n -> [frame : InterpFrames, points : InterpPointLists]] :
                IsSorted(kfs) } : n \in 0..MaxKeyframes }

InitInterp ==
    /\ AppIdle
    /\ TrackIdle
    /\ \E kfs \in InterpKeyframeLists : q_mask = [id |-> "mask_1", keyframes |-> kfs]
    /\ q_frame \in InterpTargets
    /\ q_result = <<>>
    /\ q_pc = "call"
    /\ q_last_frame = q_frame
    /\ q_last_result = <<>>

\* One call of get_interpolated_points(q_mask, q_frame).
GetInterpolatedPoints ==
    /\ q_pc = "call"
    /\ q_result' = get_interpolated_points(q_mask, q_frame).points
    /\ q_mask' = [q_mask EXCEPT !.keyframes = KeyframesAfterInterpolation(q_mask, q_frame)]
    /\ q_pc' = IF get_interpolated_points(q_mask, q_frame).raised THEN "raised" ELSE "returned"
    /\ UNCHANGED <<q_frame, q_last_frame, q_last_result, appVars, viewerVars, trackVars>>

\* The caller asks again, for another frame (scrubbing, playback, export).
NextQuery ==
    /\ q_pc = "returned"
    /\ q_frame' \in InterpTargets
    /\ q_result' = <<>>
    /\ q_pc' = "call"
    /\ q_last_frame' = q_frame
    /\ q_last_result' = q_result
    /\ UNCHANGED <<q_mask, appVars, viewerVars, trackVars>>

NextInterp == GetInterpolatedPoints \/ NextQuery

SpecInterp == InitInterp /\ [][NextInterp]_vars

\* prev / next as the specification defines them, independently of the scan.
LatestAtOrBefore(kfs, f) ==
    LET S == { i \in DOMAIN kfs : kfs[i].frame <= f }
    IN  IF S = {} THEN 0 ELSE CHOOSE i \in S : \A j \in S : j <= i

EarliestAfter(kfs, f) ==
    LET S == { i \in DOMAIN kfs : kfs[i].frame > f }
    IN  IF S = {} THEN 0 ELSE CHOOSE i \in S : \A j \in S : i <= j

\* r = p + (n - p) * dt / span, stated on integers by cross-multiplication.
OnTheLine(r, p, n, dt, span) ==
    (r[1] * p[2] - p[1] * r[2]) * span * n[2] = (n[1] * p[2] - p[1] * n[2]) * dt * r[2]

MidpointExample == <<Keyframe(0, <<Pt(0, 0)>>), Keyframe(10, <<Pt(10, 20)>>)>>

\* C5: between prev (latest keyframe with frame <= target) and next (earliest
\* with frame > target) every returned coordinate is
\* prev + (next - prev) * (target - prev.frame) / (next.frame - prev.frame),
\* per vertex index and per axis; keyframes 0:[(0,0)], 10:[(10,20)] queried at
\* frame 5 give [(5,10)].
C5_LinearInterpolation ==
    q_pc = "returned" =>
        LET kfs == q_mask.keyframes
            p == LatestAtOrBefore(kfs, q_frame)
            n == EarliestAfter(kfs, q_frame)
        IN  /\ (p # 0 /\ n # 0) =>
                /\ Len(q_result) = Min(Len(kfs[p].points), Len(kfs[n].points))
                /\ \A i \in DOMAIN q_result : \A a \in {1, 2} :
                      OnTheLine(q_result[i][a], kfs[p].points[i][a], kfs[n].points[i][a],
                                q_frame - kfs[p].frame, kfs[n].frame - kfs[p].frame)
            /\ (kfs = MidpointExample /\ q_frame = 5) => q_result = <<Pt(5, 10)>>

C5_Witness ==
    /\ q_pc = "returned"
    /\ q_mask.keyframes = MidpointExample
    /\ q_frame = 5
    /\ q_result = <<Pt(5, 10)>>

\* C6: a target frame strictly before the first keyframe's frame returns
\* exactly the first keyframe's points.
C6_ClampToStart ==
    (q_pc = "returned" /\ Len(q_mask.keyframes) > 0
        /\ q_frame < q_mask.keyframes[1].frame)
    => q_result = q_mask.keyframes[1].points

C6_Witness ==
    /\ q_pc = "returned"
    /\ Len(q_mask.keyframes) = 2
    /\ q_mask.keyframes[1].frame = 5
    /\ q_mask.keyframes[2].frame = 10
    /\ q_mask.keyframes[1].points # q_mask.keyframes[2].points
    /\ q_frame = 0
    /\ q_result = q_mask.keyframes[1].points

\* C7: a target frame at or after the last keyframe's frame returns exactly
\* the last keyframe's points.
C7_ClampToEnd ==
    (q_pc = "returned" /\ Len(q_mask.keyframes) > 0
        /\ q_frame >= q_mask.keyframes[Len(q_mask.keyframes)].frame)
    => q_result = q_mask.keyframes[Len(q_mask.keyframes)].points

C7_Witness ==
    /\ q_pc = "returned"
    /\ Len(q_mask.keyframes) = 2
    /\ q_mask.keyframes[1].frame = 5
    /\ q_mask.keyframes[2].frame = 10
    /\ q_mask.keyframes[1].points # q_mask.keyframes[2].points
    /\ q_frame = 20
    /\ q_result = q_mask.keyframes[2].points

\* C10: a call of get_interpolated_points leaves the mask's keyframe sequence
\* (frames and points) exactly as it was before the call.
C10_InterpolationDoesNotMutate ==
    [][(q_pc = "call" /\ q_pc' = "returned") => q_mask' = q_mask]_vars

C10_Witness ==
    /\ q_pc = "returned"
    /\ Len(q_mask.keyframes) = 3
    /\ q_frame = 7
    /\ q_mask.keyframes[2].frame = 5
    /\ q_mask.keyframes[3].frame = 10
    /\ q_result # q_mask.keyframes[2].points
    /\ q_result # q_mask.keyframes[3].points

(***************************************************************************)
(* Application and MaskManager: masks, the create tool, the keyframe tool, *)
(* tracking a mask.  One video is selected; the user works on its masks.   *)
(***************************************************************************)
MaxMasks == 1
TotalFrames == 2

\* What the user draws, where the user clicks and drags to, and how the
\* tracked subject moves from one frame to the next.
DrawnPolygons_Absent == { <<Pt(0, 0), <<>>, Pt(0, 10)>> }

DrawnPolygons == { <<Pt(0, 0), Pt(10, 0), Pt(0, 10)>> }
DragIndices == {0}
DragTargets == { Pt(7, 7) }
TrackShifts == { <<1, 0>> }

None == <<>>

\* mask_id = f"mask_{len(masks) + 1}"; one keyframe at frame 0
add_mask(ms, points) ==
    Append(ms, [id |-> Len(ms) + 1, keyframes |-> <<Keyframe(0, points)>>])

\* list.sort(key = frame), which is stable: insertion of each element after
\* the elements with a frame <= its own.
\* A sort that puts an element before the elements with the same frame.
InsertByFrame_BeforeTies(sorted, kf) ==
    SelectSeq(sorted, LAMBDA k : k.frame < kf.frame) \o <<kf>>
        \o SelectSeq(sorted, LAMBDA k : k.frame >= kf.frame)

RECURSIVE InsertByFrame(_, _)
InsertByFrame(sorted, kf) ==
    IF sorted = <<>> THEN <<kf>>
    ELSE IF sorted[Len(sorted)].frame <= kf.frame THEN Append(sorted, kf)
    ELSE Append(InsertByFrame(SubSeq(sorted, 1, Len(sorted) - 1), kf), sorted[Len(sorted)])

RECURSIVE StableSort(_)
StableSort(kfs) ==
    IF kfs = <<>> THEN <<>>
    ELSE InsertByFrame(StableSort(SubSeq(kfs, 1, Len(kfs) - 1)), kfs[Len(kfs)])

SortKeyframes_Skipped(kfs) == kfs

\* mask['keyframes'].sort(key=lambda k: k['frame'])
SortKeyframes(kfs) == StableSort(kfs)

\* "for mask in masks: if mask['id'] == mask_id: ... break": the first match.
FirstWithId(ms, id) ==
    LET S == { i \in DOMAIN ms : ms[i].id = id }
    IN  IF S = {} THEN 0 ELSE CHOOSE i \in S : \A j \in S : i <= j

add_keyframe(ms, mask_id, points, frame) ==
    LET i == FirstWithId(ms, mask_id)
    IN  IF i = 0 THEN ms
        ELSE [ms EXCEPT ![i].keyframes = SortKeyframes(Append(@, Keyframe(frame, points)))]

\* [m for m in masks if m['id'] != mask_id]
delete_mask(ms, mask_id) == SelectSeq(ms, LAMBDA m : m.id # mask_id)

\* The polygons draw_all_masks leaves on the canvas: every mask but the one
\* being edited, at MaskManager.current_frame, when it has 3 points or more.
RECURSIVE draw_all_masks(_, _, _)
draw_all_masks(ms, editing, frame) ==
    IF ms = <<>> THEN <<>>
    ELSE LET m == ms[Len(ms)]
             rest == draw_all_masks(SubSeq(ms, 1, Len(ms) - 1), editing, frame)
             points == get_interpolated_points(m, frame).points
         IN  IF editing # 0 /\ m.id = editing THEN rest
             ELSE IF Len(points) < 3 THEN rest
             ELSE Append(rest, [id |-> m.id, points |-> points])

\* The trajectories track_points_with_consensus returns for a video of
\* TotalFrames frames: entry 0 is the initial points, then one entry per frame.
ShiftPoints(pts, d) ==
    [i \in DOMAIN pts |-> <<RatAdd(pts[i][1], R(d[1])), RatAdd(pts[i][2], R(d[2]))>>]

RECURSIVE TrajectoryOf(_, _, _)
TrajectoryOf(initial_points, shifts, n) ==
    IF n = 1 THEN <<initial_points>>
    ELSE LET before == TrajectoryOf(initial_points, shifts, n - 1)
         IN  Append(before, ShiftPoints(before[n - 1], shifts[n]))

TrackerResults(initial_points) ==
    { <<>> } \cup
    { TrajectoryOf(initial_points, shifts, TotalFrames) :
        shifts \in [2..TotalFrames -> TrackShifts] }

HasNone(points) == \E i \in DOMAIN points : points[i] = None

\* The keyframes appended for frames 1.. of the trajectory, skipping entries
\* that hold a None.
RECURSIVE TrackedKeyframes(_, _)
TrackedKeyframes(traj, n) ==
    IF n <= 1 THEN <<>>
    ELSE LET before == TrackedKeyframes(traj, n - 1)
         IN  IF HasNone(traj[n]) THEN before
             ELSE Append(before, Keyframe(n - 1, traj[n]))

\* track_mask's rebuild: the first keyframe, then the tracked ones, sorted.
RebuildKeyframes_KeepAll(kfs, traj) ==
    SortKeyframes(kfs \o TrackedKeyframes(traj, Len(traj)))

RebuildKeyframes(kfs, traj) ==
    SortKeyframes(<<kfs[1]>> \o TrackedKeyframes(traj, Len(traj)))

InitApp ==
    /\ AppIdle
    /\ InterpIdle
    /\ TrackIdle

\* Buttons and the slider are operated with the mouse: between a press that
\* selected a vertex and its release (on_canvas_click .. on_canvas_release) no
\* other widget receives a click.
MouseUp == selected_point_index = -1

\* messagebox.showinfo is modal: while it is open no other widget receives
\* an event.
NoDialog == track_call = NoTrackCall

\* MaskManager.deactivate_tools leaves selected_point_index as it is.
DeactivateTools ==
    /\ active_tool' = "none"
    /\ current_mask' = 0
    /\ current_points' = <<>>
    /\ original_points' = <<>>
    /\ current_points_owner' = 0
    /\ editing_mask_id' = 0

ActivateCreateMaskTool ==
    /\ NoDialog
    /\ active_tool = "none"
    /\ active_tool' = "create"
    /\ current_points' = <<>>
    /\ editing_mask_id' = 0
    /\ current_points_owner' = 0
    /\ UNCHANGED <<masks, current_mask, original_points, selected_point_index,
                   current_frame, current_frame_index, canvas_masks>>
    /\ UNCHANGED <<track_call, viewerVars, interpVars, trackVars>>

\* The click that closes the polygon: finish_create_mask with the points
\* clicked so far, at least 3.
FinishCreateMask ==
    /\ NoDialog
    /\ active_tool = "create"
    /\ Len(masks) < MaxMasks
    /\ \E points \in DrawnPolygons :
          /\ Len(points) >= 3
          /\ masks' = add_mask(masks, points)
    /\ DeactivateTools
    /\ canvas_masks' = draw_all_masks(masks', 0, current_frame)
    /\ UNCHANGED <<selected_point_index, current_frame, current_frame_index>>
    /\ UNCHANGED <<track_call, viewerVars, interpVars, trackVars>>

ActivateKeyframeMaskTool ==
    /\ NoDialog
    /\ active_tool = "none"
    /\ \E i \in DOMAIN masks :
          LET r == get_interpolated_points(masks[i], current_frame)
          IN  /\ active_tool' = "keyframe"
              /\ current_mask' = i
              /\ current_points' = r.points
              /\ current_points_owner' = r.shared
              /\ original_points' = r.points
              /\ editing_mask_id' = masks[i].id
              /\ canvas_masks' = draw_all_masks(masks, masks[i].id, current_frame)
    /\ UNCHANGED <<masks, selected_point_index, current_frame, current_frame_index>>
    /\ UNCHANGED <<track_call, viewerVars, interpVars, trackVars>>

OnCanvasClick ==
    /\ NoDialog
    /\ active_tool = "keyframe"
    /\ \E i \in DragIndices :
          /\ i < Len(current_points)
          /\ selected_point_index' = i
    /\ UNCHANGED <<masks, active_tool, current_mask, current_points, original_points,
                   current_points_owner, editing_mask_id, current_frame,
                   current_frame_index, canvas_masks>>
    /\ UNCHANGED <<track_call, viewerVars, interpVars, trackVars>>

\* self.current_points[self.selected_point_index] = (x, y): an assignment into
\* the list object, seen by every holder of that list.
OnCanvasDrag ==
    /\ NoDialog
    /\ active_tool = "keyframe"
    /\ selected_point_index >= 0
    /\ selected_point_index < Len(current_points)
    /\ \E to \in DragTargets :
          /\ current_points' = [current_points EXCEPT ![selected_point_index + 1] = to]
          /\ masks' = IF current_points_owner = 0 THEN masks
                      ELSE [masks EXCEPT ![current_mask].keyframes[current_points_owner].points
                                             = current_points']
    /\ UNCHANGED <<active_tool, current_mask, original_points, current_points_owner,
                   editing_mask_id, selected_point_index, current_frame,
                   current_frame_index, canvas_masks>>
    /\ UNCHANGED <<track_call, viewerVars, interpVars, trackVars>>

OnCanvasRelease ==
    /\ NoDialog
    /\ active_tool = "keyframe"
    /\ selected_point_index >= 0
    /\ selected_point_index' = -1
    /\ UNCHANGED <<masks, active_tool, current_mask, current_points, original_points,
                   current_points_owner, editing_mask_id, current_frame,
                   current_frame_index, canvas_masks>>
    /\ UNCHANGED <<track_call, viewerVars, interpVars, trackVars>>

\* MaskManager.apply_keyframe: Application.add_keyframe at the viewer's
\* current_frame_index, then deactivate_tools and draw_all_masks.
ApplyKeyframe ==
    /\ NoDialog
    /\ MouseUp
    /\ active_tool = "keyframe"
    /\ current_mask # 0
    /\ Len(masks[FirstWithId(masks, masks[current_mask].id)].keyframes) < MaxKeyframes
    /\ masks' = add_keyframe(masks, masks[current_mask].id, current_points,
                             current_frame_index)
    /\ DeactivateTools
    /\ canvas_masks' = draw_all_masks(masks', 0, current_frame)
    /\ UNCHANGED <<selected_point_index, current_frame, current_frame_index>>
    /\ UNCHANGED <<track_call, viewerVars, interpVars, trackVars>>

CancelCurrentOperation ==
    /\ NoDialog
    /\ MouseUp
    /\ \/ /\ active_tool = "create"
          /\ UNCHANGED canvas_masks
       \/ /\ active_tool = "keyframe"
          /\ current_mask # 0
          /\ canvas_masks' = draw_all_masks(masks, 0, current_frame)
    /\ DeactivateTools
    /\ UNCHANGED <<masks, selected_point_index, current_frame, current_frame_index>>
    /\ UNCHANGED <<track_call, viewerVars, interpVars, trackVars>>

\* cv2.VideoCapture.read: the position after a read at pos (a read at the
\* end of the video delivers nothing and leaves the position).
PosAfterRead(pos) == IF pos < TotalFrames THEN pos + 1 ELSE pos

\* frame_index = max(0, min(frame_index, self.total_frames - 1))
ClampFrameIndex(frame_index) == Max(0, Min(frame_index, TotalFrames - 1))

\* MediaViewer.seek_video (the slider, next_frame, prev_frame) while the
\* playback thread is paused: the handler runs from start to end.
SeekVideo ==
    /\ NoDialog
    /\ MouseUp
    /\ ~playing
    /\ seek_pc = <<"idle">>
    /\ \E frame_index \in -1..TotalFrames :
          /\ current_frame_index' = ClampFrameIndex(frame_index)
          /\ video_pos' = PosAfterRead(ClampFrameIndex(frame_index))
    /\ UNCHANGED <<masks, active_tool, current_mask, current_points, original_points,
                   current_points_owner, editing_mask_id, selected_point_index,
                   current_frame, canvas_masks>>
    /\ UNCHANGED <<track_call, playing, seek_pc, thread_pc, interpVars, trackVars>>

\* The Delete button, shown while no tool is active.
DeleteMask ==
    /\ NoDialog
    /\ active_tool = "none"
    /\ \E i \in DOMAIN masks :
          masks' = delete_mask(masks, masks[i].id)
    /\ canvas_masks' = draw_all_masks(masks', editing_mask_id, current_frame)
    /\ UNCHANGED <<active_tool, current_mask, current_points, original_points,
                   current_points_owner, editing_mask_id, selected_point_index,
                   current_frame, current_frame_index>>
    /\ UNCHANGED <<track_call, viewerVars, interpVars, trackVars>>

\* The Track Mask button (lines 716-745): the mask is found by its id and the
\* tracking configuration dialog opens; it is modal.
TrackMaskDialog ==
    /\ NoDialog
    /\ active_tool = "none"
    /\ \E i \in DOMAIN masks :
          LET m == FirstWithId(masks, masks[i].id)
          IN  /\ Len(masks[m].keyframes) > 0
              /\ track_call' = [stage |-> "config",
                                mask |-> m,
                                keyframes_before |-> masks[m].keyframes,
                                tracked_points |-> <<>>]
    /\ UNCHANGED <<masks, active_tool, current_mask, current_points, original_points,
                   current_points_owner, editing_mask_id, selected_point_index,
                   current_frame, current_frame_index, canvas_masks>>
    /\ UNCHANGED <<viewerVars, interpVars, trackVars>>

\* The mask's keyframes when the tracker call raised: lines 772-773 come
\* after the call, so the except clause finds the list as it was.
KeyframesOnFailure_Cleared(kfs) == <<kfs[1]>>

KeyframesOnFailure(kfs) == kfs

\* The configuration dialog is confirmed and the tracker returns (the empty
\* trajectory when the video cannot be read): the keyframes are rebuilt and
\* sorted and the "Tracking Complete" message box opens.
TrackMask ==
    /\ track_call # NoTrackCall
    /\ track_call.stage = "config"
    /\ LET m == track_call.mask
       IN  \E traj \in TrackerResults(masks[m].keyframes[1].points) :
              /\ masks' = [masks EXCEPT ![m].keyframes = RebuildKeyframes(@, traj)]
              /\ track_call' = [track_call EXCEPT !.stage = "complete",
                                                  !.tracked_points = traj]
    /\ canvas_masks' = draw_all_masks(masks', editing_mask_id, current_frame)
    /\ UNCHANGED <<active_tool, current_mask, current_points, original_points,
                   current_points_owner, editing_mask_id, selected_point_index,
                   current_frame, current_frame_index>>
    /\ UNCHANGED <<viewerVars, interpVars, trackVars>>

\* The configuration dialog is confirmed and the tracker call raises: the
\* "Tracking failed" message box opens (lines 803-804).
TrackMaskRaised ==
    /\ track_call # NoTrackCall
    /\ track_call.stage = "config"
    /\ masks' = [masks EXCEPT ![track_call.mask].keyframes = KeyframesOnFailure(@)]
    /\ track_call' = [track_call EXCEPT !.stage = "failed"]
    /\ UNCHANGED <<active_tool, current_mask, current_points, original_points,
                   current_points_owner, editing_mask_id, selected_point_index,
                   current_frame, current_frame_index, canvas_masks>>
    /\ UNCHANGED <<viewerVars, interpVars, trackVars>>

\* The message box is closed and track_mask returns.
TrackMaskReturn ==
    /\ track_call # NoTrackCall
    /\ track_call.stage \in {"complete", "failed"}
    /\ track_call' = NoTrackCall
    /\ UNCHANGED <<masks, active_tool, current_mask, current_points, original_points,
                   current_points_owner, editing_mask_id, selected_point_index,
                   current_frame, current_frame_index, canvas_masks>>
    /\ UNCHANGED <<viewerVars, interpVars, trackVars>>

\* The user cancels the tracking configuration dialog: track_mask returns
\* (lines 746-747).
TrackMaskCancelled ==
    /\ track_call # NoTrackCall
    /\ track_call.stage = "config"
    /\ track_call' = NoTrackCall
    /\ UNCHANGED <<masks, active_tool, current_mask, current_points, original_points,
                   current_points_owner, editing_mask_id, selected_point_index,
                   current_frame, current_frame_index, canvas_masks>>
    /\ UNCHANGED <<viewerVars, interpVars, trackVars>>

\* track_mask has rebuilt the keyframes; its message box is open.
TrackCompleted == track_call # NoTrackCall /\ track_call.stage = "complete"

Next ==
    \/ ActivateCreateMaskTool
    \/ FinishCreateMask
    \/ ActivateKeyframeMaskTool
    \/ OnCanvasClick
    \/ OnCanvasDrag
    \/ OnCanvasRelease
    \/ ApplyKeyframe
    \/ CancelCurrentOperation
    \/ SeekVideo
    \/ DeleteMask
    \/ TrackMaskDialog
    \/ TrackMask
    \/ TrackMaskRaised
    \/ TrackMaskReturn
    \/ TrackMaskCancelled

Spec == InitApp /\ [][Next]_vars

\* The same application when no mask is ever deleted.
NextEdit ==
    \/ ActivateCreateMaskTool
    \/ FinishCreateMask
    \/ ActivateKeyframeMaskTool
    \/ OnCanvasClick
    \/ OnCanvasDrag
    \/ OnCanvasRelease
    \/ ApplyKeyframe
    \/ CancelCurrentOperation
    \/ SeekVideo
    \/ TrackMaskDialog
    \/ TrackMask
    \/ TrackMaskRaised
    \/ TrackMaskReturn
    \/ TrackMaskCancelled

SpecEdit == InitApp /\ [][NextEdit]_vars

\* C8: the keyframes of every mask are sorted ascending by frame number after
\* every mutation (add_mask, add_keyframe, track_mask).
C8_KeyframesSorted ==
    \A i \in DOMAIN masks : IsSorted(masks[i].keyframes)

C8_Witness ==
    \E i \in DOMAIN masks :
        LET kfs == masks[i].keyframes
        IN  /\ Len(kfs) = 3
            /\ kfs[1].frame = 0
            /\ kfs[2].frame = 0
            /\ kfs[3].frame = 1
            /\ kfs[3].points = ShiftPoints(kfs[1].points, <<1, 0>>)

\* C9: no two keyframes of the same mask have the same frame number.
C9_FramesUnique ==
    \A i \in DOMAIN masks :
        \A a, b \in DOMAIN masks[i].keyframes :
            a # b => masks[i].keyframes[a].frame # masks[i].keyframes[b].frame

(***************************************************************************)
(* track_points_with_consensus                                             *)
(***************************************************************************)
MaxVideoFrames == 3

\* The arguments the tracker is called with.
TrackInitialPoints == { <<>>, <<Pt(100, 100)>>, <<Pt(100, 100), Pt(140, 100)>> }
TrackWindowSizes == { <<21>>, <<21, 31>> }
TrackFilterMethods == { "average", "consensus" }
TrackShiftValue == 5

\* cv2.calcOpticalFlowPyrLK, per window size and per vertex: the samples of
\* the vertex are found, displaced by FlowDisp, or are not found.  In the
\* first window the samples of the first vertex may also be found with the
\* last one far off ("outlier") or with all of them scattered ("scatter").
FlowPatterns == { "found", "lost" }
FlowDistortions == { "outlier", "scatter" }
FlowDisp == <<2, 0>>
FlowOutlierDisp == <<102, 0>>
FlowScatterDisp == << <<0, 80>>, <<40, 120>>, <<80, 0>>, <<120, 160>>, <<160, 200>> >>

FlowOutcomes(nWindows, nGroups) ==
    { pattern \in [1..nWindows -> [1..nGroups -> FlowPatterns \cup FlowDistortions]] :
        \A w \in 1..nWindows : \A g \in 1..nGroups :
            pattern[w][g] \in FlowDistortions => (w = 1 /\ g = 1) }

\* The displacement of the k-th (0-based) sample of a group of ppv samples.
SampleDisp(pat, k, ppv) ==
    IF pat = "outlier" /\ k = ppv - 1 THEN FlowOutlierDisp
    ELSE IF pat = "scatter" THEN FlowScatterDisp[k + 1]
    ELSE FlowDisp

\* cv2.KalmanFilter.correct: the share of the innovation that goes to the
\* position and to the velocity.
KalmanGainPos == <<1, 2>>
KalmanGainVel == <<1, 2>>

PtAdd(p, q) == <<RatAdd(p[1], q[1]), RatAdd(p[2], q[2])>>
PtSub(p, q) == <<RatSub(p[1], q[1]), RatSub(p[2], q[2])>>

\* Lines 47-70 and 235-258: the samples of one vertex and their offsets.
OffsetsOfVertex(use_shifted_points, shift_value) ==
    IF use_shifted_points
    THEN << <<R(0), R(0)>>, <<R(0), R(-shift_value)>>, <<R(0), R(shift_value)>>,
            <<R(-shift_value), R(0)>>, <<R(shift_value), R(0)>> >>
    ELSE << <<R(0), R(0)>> >>

RECURSIVE Flatten(_)
Flatten(ss) == IF ss = <<>> THEN <<>> ELSE Head(ss) \o Flatten(Tail(ss))

\* One group of samples per vertex that is not None, in vertex order.
PresentVertices(vertices) == SelectSeq(vertices, LAMBDA v : v # None)

\* Offsets that hold the centre sample of every vertex only.
GenerateOffsets_CentreOnly(vertices, use_shifted_points, shift_value) ==
    [i \in DOMAIN PresentVertices(vertices) |-> <<R(0), R(0)>>]

GenerateOffsets(vertices, use_shifted_points, shift_value) ==
    Flatten([i \in DOMAIN PresentVertices(vertices) |->
                OffsetsOfVertex(use_shifted_points, shift_value)])

\* Samples that hold the centre sample of every vertex only.
GenerateSamples_CentreOnly(vertices, use_shifted_points, shift_value) ==
    PresentVertices(vertices)

GenerateSamples(vertices, use_shifted_points, shift_value) ==
    LET present == PresentVertices(vertices)
        offs == OffsetsOfVertex(use_shifted_points, shift_value)
    IN  Flatten([i \in DOMAIN present |->
                    [k \in DOMAIN offs |-> PtAdd(present[i], offs[k])]])

\* Lines 84-106: statePost = (x, y, 0, 0).
NewKalmanFilter(point) == [pos |-> point, vel |-> <<R(0), R(0)>>]

\* predict(): the constant-velocity transition; statePost becomes statePre.
KalmanPredict(kf) == [pos |-> PtAdd(kf.pos, kf.vel), vel |-> kf.vel]

\* correct(measurement)
KalmanCorrect(kf, z) ==
    LET e == PtSub(z, kf.pos)
    IN  [pos |-> <<RatAdd(kf.pos[1], RatMul(KalmanGainPos, e[1])),
                   RatAdd(kf.pos[2], RatMul(KalmanGainPos, e[2]))>>,
         vel |-> <<RatAdd(kf.vel[1], RatMul(KalmanGainVel, e[1])),
                   RatAdd(kf.vel[2], RatMul(KalmanGainVel, e[2]))>>]

\* points_per_vertex = 5 if use_shifted_points else 1
PointsPerVertex(use_shifted_points) == IF use_shifted_points THEN 5 ELSE 1

\* The optical-flow result of one frame: for every window size the status and
\* the next point of every current sample.  pattern[w][g] is what happens to
\* the g-th group of samples in the array.
FlowOf(samples, ppv, pattern) ==
    [w \in DOMAIN pattern |->
        [status |-> [j \in DOMAIN samples |->
                        IF pattern[w][((j - 1) \div ppv) + 1] # "lost" THEN 1 ELSE 0],
         next |-> [j \in DOMAIN samples |->
                      LET d == SampleDisp(pattern[w][((j - 1) \div ppv) + 1], (j - 1) % ppv, ppv)
                      IN  PtAdd(samples[j], <<R(d[1]), R(d[2])>>)]]]

\* Filter j (1-based) after the windows 1..w of this frame: predict and
\* correct once for every window that found sample j (lines 154-160).
RECURSIVE KalmanAfter(_, _, _, _)
KalmanAfter(kf, j, flow, w) ==
    IF w = 0 THEN kf
    ELSE LET before == KalmanAfter(kf, j, flow, w - 1)
         IN  IF j <= Len(flow[w].status) /\ flow[w].status[j] = 1
             THEN KalmanCorrect(KalmanPredict(before), flow[w].next[j])
             ELSE before

\* The probes <<w, j>> of vertex i (0-based) in the order of the loops of
\* lines 148-154, j 1-based.
ProbesOfVertex(i, ppv, nWindows, nSamples) ==
    LET start == i * ppv
        stop == Min(start + ppv, nSamples)
        cnt == IF stop > start THEN stop - start ELSE 0
    IN  [k \in 1..(nWindows * cnt) |->
            <<((k - 1) \div cnt) + 1, start + ((k - 1) % cnt) + 1>>]

\* Lines 157-172: the offset-adjusted filtered position of every found probe.
AdjustedPositions(found, flow, filters, offsets) ==
    [k \in DOMAIN found |->
        PtSub(KalmanAfter(filters[found[k][2]], found[k][2], flow, found[k][1]).pos,
              offsets[((found[k][2] - 1) % Len(offsets)) + 1])]

\* valid_samples of vertex i: the offset-adjusted filtered positions.
ValidSamples(i, ppv, flow, filters, offsets) ==
    AdjustedPositions(
        SelectSeq(ProbesOfVertex(i, ppv, Len(flow), Len(flow[1].next)),
                  LAMBDA pr : flow[pr[1]].status[pr[2]] = 1),
        flow, filters, offsets)

\* sum(...) / len(...)
RECURSIVE RatSum(_)
RatSum(xs) == IF xs = <<>> THEN R(0) ELSE RatAdd(Head(xs), RatSum(Tail(xs)))

MeanPoint(positions) ==
    <<RatDiv(RatSum([k \in DOMAIN positions |-> positions[k][1]]), R(Len(positions))),
      RatDiv(RatSum([k \in DOMAIN positions |-> positions[k][2]]), R(Len(positions)))>>

\* np.median: the middle of the sorted values, the mean of the two middle
\* ones when their number is even.
RatInsert(sorted, x) ==
    LET smaller == SelectSeq(sorted, LAMBDA y : ~RatLess(x, y))
        larger == SelectSeq(sorted, LAMBDA y : RatLess(x, y))
    IN  smaller \o <<x>> \o larger

RECURSIVE RatSort(_)
RatSort(xs) == IF xs = <<>> THEN <<>> ELSE RatInsert(RatSort(Tail(xs)), Head(xs))

Median(xs) ==
    LET sorted == RatSort(xs)
        n == Len(xs)
    IN  IF n % 2 = 1 THEN sorted[(n + 1) \div 2]
        ELSE RatDiv(RatAdd(sorted[n \div 2], sorted[(n \div 2) + 1]), R(2))

\* threshold = 10
OutlierThreshold == 10

ConsensusSamples_KeepAll(positions, movement_vectors, median_dx, median_dy) == positions

\* positions[j] for the indices j kept.
PickPositions(positions, kept) == [k \in DOMAIN kept |-> positions[kept[k]]]

\* Lines 197-200: the samples whose movement is within the threshold of the
\* median movement on both axes.
ConsensusSamples(positions, movement_vectors, median_dx, median_dy) ==
    LET InConsensus(k) ==
            /\ RatLess(RatAbs(RatSub(movement_vectors[k][1], median_dx)), R(OutlierThreshold))
            /\ RatLess(RatAbs(RatSub(movement_vectors[k][2], median_dy)), R(OutlierThreshold))
    IN  PickPositions(positions, SelectSeq([k \in DOMAIN positions |-> k], InConsensus))

ConsensusPosition_KeepsOriginal(consensus_samples, original_pos, median_dx, median_dy) ==
    IF consensus_samples # <<>>
    THEN MeanPoint(consensus_samples)
    ELSE original_pos

\* Lines 202-212: the mean of the consensus samples, or the original position
\* plus the median movement when there is none.
ConsensusPosition(consensus_samples, original_pos, median_dx, median_dy) ==
    IF consensus_samples # <<>>
    THEN MeanPoint(consensus_samples)
    ELSE PtAdd(original_pos, <<median_dx, median_dy>>)

ConsensusMedians(positions, movement_vectors, original_pos, median_dx, median_dy) ==
    ConsensusPosition(ConsensusSamples(positions, movement_vectors, median_dx, median_dy),
                      original_pos, median_dx, median_dy)

\* Lines 181-212.
ConsensusFilter(positions, movement_vectors, original_pos) ==
    ConsensusMedians(positions, movement_vectors, original_pos,
                     Median([k \in DOMAIN movement_vectors |-> movement_vectors[k][1]]),
                     Median([k \in DOMAIN movement_vectors |-> movement_vectors[k][2]]))

FilterVertex_IgnoresMethod(positions, original_pos, filter_method) ==
    IF Len(positions) >= 3
    THEN ConsensusFilter(positions,
                         [k \in DOMAIN positions |-> PtSub(positions[k], original_pos)],
                         original_pos)
    ELSE MeanPoint(positions)

\* Lines 179-217: the position of a vertex from its valid samples.
FilterVertex(positions, original_pos, filter_method) ==
    IF filter_method = "consensus" /\ Len(positions) >= 3
    THEN ConsensusFilter(positions,
                         [k \in DOMAIN positions |-> PtSub(positions[k], original_pos)],
                         original_pos)
    ELSE MeanPoint(positions)

\* A vertex without a valid sample is marked lost at once.
FallbackVertex_Lost(i, ppv, filters, trajectory) == None

FallbackVertex_LastKnown(i, ppv, filters, trajectory) ==
    IF Len(trajectory) > 0 /\ i < Len(trajectory[Len(trajectory)])
    THEN trajectory[Len(trajectory)][i + 1]
    ELSE None

\* Lines 219-230: a vertex none of whose samples was found.
FallbackVertex(i, ppv, filters, trajectory) ==
    IF i * ppv < Len(filters)
    THEN KalmanPredict(filters[i * ppv + 1]).pos
    ELSE IF Len(trajectory) > 0 /\ i < Len(trajectory[Len(trajectory)])
         THEN trajectory[Len(trajectory)][i + 1]
         ELSE None

\* positions (the pooled estimates) of every vertex during the frame.
PooledEstimates(cfg, flow, filters, offsets) ==
    [k \in DOMAIN cfg.initial_points |->
        ValidSamples(k - 1, PointsPerVertex(cfg.use_shifted_points), flow, filters, offsets)]

\* len(valid_samples) of every vertex during the frame.
ValidCounts(pooled) == [k \in DOMAIN pooled |-> Len(pooled[k])]

\* Lines 143-230: filtered_vertices, one element per initial point.
VertexEstimate(i, cfg, positions, filters, trajectory) ==
    IF positions # <<>>
    THEN FilterVertex(positions, cfg.initial_points[i + 1], cfg.filter_method)
    ELSE FallbackVertex(i, PointsPerVertex(cfg.use_shifted_points), filters, trajectory)

\* A loop that forgets the vertices without a valid sample.
FilteredVertices_DropLost(cfg, pooled, filters, trajectory) ==
    LET tracked == SelectSeq([i \in DOMAIN cfg.initial_points |-> i - 1],
                             LAMBDA i : pooled[i + 1] # <<>>)
    IN  [k \in DOMAIN tracked |->
            VertexEstimate(tracked[k], cfg, pooled[tracked[k] + 1], filters, trajectory)]

FilteredVertices(cfg, pooled, filters, trajectory) ==
    [k \in DOMAIN cfg.initial_points |->
        VertexEstimate(k - 1, cfg, pooled[k], filters, trajectory)]

\* Lines 219-224: filter j is the centre filter of a vertex without a valid
\* sample.
FellBack(j, cfg, pooled) ==
    LET ppv == PointsPerVertex(cfg.use_shifted_points)
    IN  /\ (j - 1) % ppv = 0
        /\ (j - 1) \div ppv < Len(cfg.initial_points)
        /\ pooled[(j - 1) \div ppv + 1] = <<>>

\* The filters after the frame: every window that found sample j has
\* predicted and corrected filter j; the centre filter of a vertex without a
\* valid sample has predicted once more.
FiltersAfterFrame(cfg, flow, filters, pooled) ==
    [j \in DOMAIN filters |->
        LET after == KalmanAfter(filters[j], j, flow, Len(flow))
        IN  IF FellBack(j, cfg, pooled) THEN KalmanPredict(after) ELSE after]

\* The number of predict() calls on every filter during the frame.
PredictsInFrame(cfg, flow, filters, pooled) ==
    LET Found(j) == Cardinality({w \in DOMAIN flow :
                        j <= Len(flow[w].status) /\ flow[w].status[j] = 1})
    IN  [j \in DOMAIN filters |->
            Found(j) + (IF FellBack(j, cfg, pooled) THEN 1 ELSE 0)]

\* tracked_points = [[tuple(p) for p in initial_points]]
InitialTrajectory_Empty(initial_points) == <<>>

InitialTrajectory(initial_points) == <<initial_points>>

\* [None] * len(initial_points)
AllLostEntry(initial_points) == [i \in DOMAIN initial_points |-> None]

\* cap.release() before the early return.
ReleasedOnFailure_Forgotten == FALSE

ReleasedOnFailure == TRUE

\* window_sizes = [21] when none is given
DefaultWindowSizes == <<21>>

EffectiveWindowSizes(window_sizes) ==
    IF window_sizes = <<>> THEN DefaultWindowSizes ELSE window_sizes

TrackConfigs ==
    [initial_points : TrackInitialPoints,
     use_shifted_points : BOOLEAN,
     shift_value : {TrackShiftValue},
     window_sizes : TrackWindowSizes \cup { <<>> },
     filter_method : TrackFilterMethods,
     frames : 0..MaxVideoFrames]

InitTrack ==
    /\ AppIdle
    /\ InterpIdle
    /\ t_pc = "start"
    /\ t_cfg \in TrackConfigs
    /\ t_video = t_cfg.frames
    /\ t_released = FALSE
    /\ tracked_points = <<>>
    /\ sample_points = <<>>
    /\ sample_offsets = <<>>
    /\ kalman_filters = <<>>
    /\ t_log = [branch |-> "none", predicts |-> <<>>, valid |-> <<>>, positions |-> <<>>]

\* Lines 34-38: the first frame cannot be read.
TrackFirstFrameFailed ==
    /\ t_pc = "start"
    /\ t_video = 0
    /\ t_released' = ReleasedOnFailure
    /\ tracked_points' = <<>>
    /\ t_pc' = "done"
    /\ UNCHANGED <<t_cfg, t_video, sample_points, sample_offsets, kalman_filters, t_log>>
    /\ UNCHANGED <<appVars, viewerVars, interpVars>>

\* Lines 34-115: the first frame is read and the samples, the filters and
\* the trajectory are set up.
TrackStart ==
    /\ t_pc = "start"
    /\ t_video > 0
    /\ t_video' = t_video - 1
    /\ sample_points' = GenerateSamples(t_cfg.initial_points, t_cfg.use_shifted_points,
                                        t_cfg.shift_value)
    /\ sample_offsets' = GenerateOffsets(t_cfg.initial_points, t_cfg.use_shifted_points,
                                         t_cfg.shift_value)
    /\ kalman_filters' = [j \in DOMAIN sample_points' |-> NewKalmanFilter(sample_points'[j])]
    /\ tracked_points' = InitialTrajectory(t_cfg.initial_points)
    /\ t_pc' = "loop"
    /\ UNCHANGED <<t_cfg, t_released, t_log>>
    /\ UNCHANGED <<appVars, viewerVars, interpVars>>

\* Lines 119-265 and 271: a frame is read while there are samples to track.
TrackFrame ==
    /\ t_pc = "loop"
    /\ t_video > 0
    /\ Len(sample_points) > 0
    /\ LET ppv == PointsPerVertex(t_cfg.use_shifted_points)
           nWindows == Len(EffectiveWindowSizes(t_cfg.window_sizes))
           nGroups == (Len(sample_points) + ppv - 1) \div ppv
       IN  \E pattern \in FlowOutcomes(nWindows, nGroups) :
           \E flow \in { FlowOf(sample_points, ppv, pattern) } :
           \E pooled \in { PooledEstimates(t_cfg, flow, kalman_filters, sample_offsets) } :
           \E filtered_vertices \in { FilteredVertices(t_cfg, pooled, kalman_filters,
                                                       tracked_points) } :
                   /\ tracked_points' = Append(tracked_points, filtered_vertices)
                   /\ kalman_filters' = FiltersAfterFrame(t_cfg, flow, kalman_filters, pooled)
                   /\ sample_points' = GenerateSamples(filtered_vertices,
                                           t_cfg.use_shifted_points, t_cfg.shift_value)
                   /\ sample_offsets' = GenerateOffsets(filtered_vertices,
                                            t_cfg.use_shifted_points, t_cfg.shift_value)
                   /\ t_log' = [branch |-> "tracked",
                                predicts |-> PredictsInFrame(t_cfg, flow, kalman_filters,
                                                             pooled),
                                valid |-> ValidCounts(pooled),
                                positions |-> pooled]
    /\ t_video' = t_video - 1
    /\ UNCHANGED <<t_pc, t_cfg, t_released>>
    /\ UNCHANGED <<appVars, viewerVars, interpVars>>

\* Lines 119-124 and 266-271: a frame is read while there is no sample.
TrackFrameAllLost ==
    /\ t_pc = "loop"
    /\ t_video > 0
    /\ Len(sample_points) = 0
    /\ tracked_points' = Append(tracked_points, AllLostEntry(t_cfg.initial_points))
    /\ t_log' = [branch |-> "all_lost", predicts |-> <<>>, valid |-> <<>>,
                 positions |-> <<>>]
    /\ t_video' = t_video - 1
    /\ UNCHANGED <<t_pc, t_cfg, t_released, sample_points, sample_offsets, kalman_filters>>
    /\ UNCHANGED <<appVars, viewerVars, interpVars>>

\* Lines 119-121 and 273-274: the video is exhausted.
TrackEnd ==
    /\ t_pc = "loop"
    /\ t_video = 0
    /\ t_released' = TRUE
    /\ t_pc' = "done"
    /\ UNCHANGED <<t_cfg, t_video, tracked_points, sample_points, sample_offsets,
                   kalman_filters, t_log>>
    /\ UNCHANGED <<appVars, viewerVars, interpVars>>

NextTrack ==
    \/ TrackFirstFrameFailed
    \/ TrackStart
    \/ TrackFrame
    \/ TrackFrameAllLost
    \/ TrackEnd

SpecTrack == InitTrack /\ [][NextTrack]_vars

IsCoordinate(v) == v \in (Int \X Int) \X (Int \X Int) /\ v[1][2] > 0 /\ v[2][2] > 0

\* C1: when the first frame is readable and the video delivers F frames, the
\* returned trajectory has exactly F entries and the first one is
\* initial_points; while the loop runs there is one entry per frame read.
C1_TrajectoryLength ==
    /\ t_pc = "loop" =>
          /\ Len(tracked_points) = t_cfg.frames - t_video
          /\ tracked_points[1] = t_cfg.initial_points
    /\ (t_pc = "done" /\ t_cfg.frames >= 1) =>
          /\ Len(tracked_points) = t_cfg.frames
          /\ tracked_points[1] = t_cfg.initial_points

C1_Witness ==
    /\ t_pc = "done"
    /\ t_cfg.frames = 3
    /\ Len(t_cfg.initial_points) = 2
    /\ Len(tracked_points) = 3
    /\ tracked_points[3] # tracked_points[1]
    /\ t_log.branch = "tracked"

\* C2: every entry of the trajectory has exactly as many elements as
\* initial_points, each one a coordinate pair or None.
C2_EntryHasNElements ==
    \A t \in DOMAIN tracked_points :
        /\ Len(tracked_points[t]) = Len(t_cfg.initial_points)
        /\ \A i \in DOMAIN tracked_points[t] :
               tracked_points[t][i] = None \/ IsCoordinate(tracked_points[t][i])

C2_Witness ==
    /\ t_pc = "done"
    /\ Len(t_cfg.initial_points) = 2
    /\ t_log.branch = "tracked"
    /\ t_log.valid[1] = 0
    /\ t_log.valid[2] > 0
    /\ Len(tracked_points[Len(tracked_points)]) = 2

\* C4: the tracker returns the empty trajectory exactly when the first
\* frame cannot be read, and the capture has been released by then.
C4_EmptyIffFirstFrameUnreadable ==
    t_pc = "done" =>
        /\ t_released
        /\ (tracked_points = <<>>) <=> (t_cfg.frames = 0)

C4_Witness ==
    /\ t_pc = "done"
    /\ t_cfg.frames = 0
    /\ tracked_points = <<>>
    /\ t_released

(***************************************************************************)
(* Further properties of get_interpolated_points, over SpecInterp.         *)
(***************************************************************************)

\* C11: on a mask without keyframes the call returns the empty list, for
\* every target frame, and does not raise.
C11_EmptyKeyframes ==
    (q_pc # "call" /\ q_mask.keyframes = <<>>) => (q_pc = "returned" /\ q_result = <<>>)

C11_Witness ==
    /\ q_pc = "returned"
    /\ q_mask.keyframes = <<>>
    /\ q_frame = 7
    /\ q_result = <<>>

\* C12: the call never divides by zero, whatever the keyframes (adjacent
\* keyframes with equal frames included) and the target; it returns prev's
\* points whenever prev and next have the same frame, and for a target on a
\* duplicated frame it returns the points of prev, the latest keyframe at or
\* before the target (next, if any, having at least as many vertices).
C12_DegenerateDuplicates ==
    /\ q_pc # "raised"
    /\ q_pc = "returned" =>
          LET kfs == q_mask.keyframes
              p == LatestAtOrBefore(kfs, q_frame)
              n == EarliestAfter(kfs, q_frame)
          IN  /\ (p # 0 /\ n # 0 /\ kfs[n].frame = kfs[p].frame) => q_result = kfs[p].points
              /\ ( /\ p > 1
                   /\ kfs[p - 1].frame = kfs[p].frame
                   /\ q_frame = kfs[p].frame
                   /\ n # 0 => Len(kfs[n].points) >= Len(kfs[p].points) )
                 => q_result = kfs[p].points

C12_Witness ==
    /\ q_pc = "returned"
    /\ Len(q_mask.keyframes) = 3
    /\ q_mask.keyframes[1].frame = 5
    /\ q_mask.keyframes[2].frame = 5
    /\ q_mask.keyframes[3].frame = 10
    /\ q_mask.keyframes[1].points # q_mask.keyframes[2].points
    /\ Len(q_mask.keyframes[3].points) = Len(q_mask.keyframes[2].points)
    /\ q_frame = 5
    /\ q_result = q_mask.keyframes[2].points

RatLeq(a, b) == ~RatLess(b, a)

\* C13: for two calls on the same mask whose targets t1 <= t2 lie between the
\* same prev and next keyframes, every coordinate moves from t1 to t2 in the
\* direction from prev's value to next's value (so it is monotonic in the
\* target), and every interpolated coordinate lies between the two values.
C13_InterpolationMonotonic ==
    q_pc = "returned" =>
        LET kfs == q_mask.keyframes
            p == LatestAtOrBefore(kfs, q_frame)
            n == EarliestAfter(kfs, q_frame)
            Between(r, a, b) == (RatLeq(a, r) /\ RatLeq(r, b)) \/ (RatLeq(b, r) /\ RatLeq(r, a))
        IN  (p # 0 /\ n # 0) =>
                \A i \in DOMAIN q_result : \A c \in {1, 2} :
                    LET a == kfs[p].points[i][c]
                        b == kfs[n].points[i][c]
                    IN  /\ Between(q_result[i][c], a, b)
                        /\ ( /\ q_last_result # <<>>
                             /\ LatestAtOrBefore(kfs, q_last_frame) = p
                             /\ EarliestAfter(kfs, q_last_frame) = n
                             /\ q_last_frame <= q_frame )
                           => IF RatLeq(a, b)
                              THEN RatLeq(q_last_result[i][c], q_result[i][c])
                              ELSE RatLeq(q_result[i][c], q_last_result[i][c])

C13_Witness ==
    /\ q_pc = "returned"
    /\ Len(q_mask.keyframes) = 2
    /\ q_mask.keyframes[1] = Keyframe(0, <<Pt(10, 20)>>)
    /\ q_mask.keyframes[2] = Keyframe(10, <<Pt(0, 0)>>)
    /\ q_last_frame = 2
    /\ q_last_result = <<Pt(8, 16)>>
    /\ q_frame = 7
    /\ q_result = <<Pt(3, 6)>>

(***************************************************************************)
(* Further properties of track_points_with_consensus, over SpecTrack.      *)
(***************************************************************************)

\* The position of vertex i in the frame before the last one processed (its
\* frame-t position when the last entry is that of frame t+1).
FrameTPosition(i) == tracked_points[Len(tracked_points) - 1][i]

\* The position of vertex i in the last entry of the trajectory.
NewPosition(i) == tracked_points[Len(tracked_points)][i]

\* The per-axis median of the displacements of the estimates from a position.
MedianDisplacement(estimates, from) ==
    <<Median([k \in DOMAIN estimates |-> RatSub(estimates[k][1], from[1])]),
      Median([k \in DOMAIN estimates |-> RatSub(estimates[k][2], from[2])])>>

\* The estimates whose displacement from a position differs from the median
\* displacement by less than 10 on both axes.
WithinOfMedian(estimates, from) ==
    LET med == MedianDisplacement(estimates, from)
    IN  SelectSeq(estimates, LAMBDA e :
            /\ RatLess(RatAbs(RatSub(RatSub(e[1], from[1]), med[1])), R(10))
            /\ RatLess(RatAbs(RatSub(RatSub(e[2], from[2]), med[2])), R(10)))

\* C14: in consensus mode a vertex with at least 3 pooled estimates, some of
\* them within 10 of the median displacement (measured from the vertex's
\* frame-t position) on both axes, moves to the mean of exactly those.
C14_ConsensusOutlierRejection ==
    (t_log.branch = "tracked" /\ t_cfg.filter_method = "consensus") =>
        \A i \in DOMAIN t_cfg.initial_points :
            LET estimates == t_log.positions[i]
                kept == WithinOfMedian(estimates, FrameTPosition(i))
            IN  (Len(estimates) >= 3 /\ kept # <<>>) => NewPosition(i) = MeanPoint(kept)

\* Five estimates, four at one place and the fifth 50 away: the new position
\* is where the four are.
C14_Witness ==
    /\ t_log.branch = "tracked"
    /\ t_cfg.filter_method = "consensus"
    /\ Len(tracked_points) = 3
    /\ FrameTPosition(1) # t_cfg.initial_points[1]
    /\ Len(t_log.positions[1]) = 5
    /\ \A k \in 1..4 : t_log.positions[1][k] = t_log.positions[1][1]
    /\ RatAbs(RatSub(t_log.positions[1][5][1], t_log.positions[1][1][1])) = R(50)
    /\ NewPosition(1) = t_log.positions[1][1]

\* r is the unweighted mean of the estimates: n * r = the sum, per axis.
IsMeanOf(r, estimates) ==
    \A c \in {1, 2} :
        RatMul(r[c], R(Len(estimates))) = RatSum([k \in DOMAIN estimates |-> estimates[k][c]])

\* C18: with filter_method average, or with fewer than 3 pooled estimates
\* whatever the method, a vertex that has estimates moves to their
\* unweighted mean.
C18_FilterSelection ==
    t_log.branch = "tracked" =>
        \A i \in DOMAIN t_cfg.initial_points :
            LET estimates == t_log.positions[i]
            IN  ( /\ Len(estimates) >= 1
                  /\ t_cfg.filter_method = "average" \/ Len(estimates) < 3 )
                => IsMeanOf(NewPosition(i), estimates)

C18_Witness ==
    /\ t_log.branch = "tracked"
    /\ t_cfg.filter_method = "consensus"
    /\ Len(t_log.positions[1]) = 2
    /\ t_log.positions[1][1] # t_log.positions[1][2]
    /\ IsMeanOf(NewPosition(1), t_log.positions[1])

\* C19: in consensus mode a vertex with at least 3 pooled estimates, none of
\* them within 10 of the median displacement on both axes, moves to its
\* frame-t position plus the median displacement measured from that position.
C19_ConsensusFallback ==
    (t_log.branch = "tracked" /\ t_cfg.filter_method = "consensus") =>
        \A i \in DOMAIN t_cfg.initial_points :
            LET estimates == t_log.positions[i]
            IN  (Len(estimates) >= 3 /\ WithinOfMedian(estimates, FrameTPosition(i)) = <<>>)
                => NewPosition(i) = PtAdd(FrameTPosition(i),
                                          MedianDisplacement(estimates, FrameTPosition(i)))

C19_Witness ==
    /\ t_log.branch = "tracked"
    /\ t_cfg.filter_method = "consensus"
    /\ Len(tracked_points) = 3
    /\ FrameTPosition(1) # t_cfg.initial_points[1]
    /\ Len(t_log.positions[1]) >= 3
    /\ WithinOfMedian(t_log.positions[1], FrameTPosition(1)) = <<>>
    /\ NewPosition(1) = PtAdd(FrameTPosition(1),
                              MedianDisplacement(t_log.positions[1], FrameTPosition(1)))
    /\ NewPosition(1) # FrameTPosition(1)

\* C20: in a tracked frame a vertex none of whose samples was found by any
\* window moves to the position its centre sample's filter predicts from its
\* state before the frame (position plus velocity), and that filter is left
\* in the predicted state, not corrected; without such a filter the vertex
\* keeps its last known position, and without one it is absent.
C20_ZeroValidSampleFallback ==
    [][(t_pc = "loop" /\ t_log'.branch = "tracked"
            /\ Len(tracked_points') = Len(tracked_points) + 1) =>
        \A i \in DOMAIN t_cfg.initial_points :
            t_log'.valid[i] = 0 =>
                LET c == (i - 1) * PointsPerVertex(t_cfg.use_shifted_points) + 1
                    last == tracked_points[Len(tracked_points)]
                    new == tracked_points'[Len(tracked_points')][i]
                IN  IF c <= Len(kalman_filters)
                    THEN /\ new = PtAdd(kalman_filters[c].pos, kalman_filters[c].vel)
                         /\ kalman_filters'[c] = [pos |-> new, vel |-> kalman_filters[c].vel]
                    ELSE IF i <= Len(last) THEN new = last[i]
                    ELSE new = None]_vars

C20_Witness ==
    /\ t_log.branch = "tracked"
    /\ Len(tracked_points) = 3
    /\ Len(t_cfg.initial_points) = 2
    /\ t_log.valid[1] = 0
    /\ t_log.valid[2] > 0
    /\ NewPosition(1) # FrameTPosition(1)
    /\ NewPosition(1) = kalman_filters[1].pos
    /\ kalman_filters[1].vel # <<R(0), R(0)>>

\* The offset of slot k (0-based) of a vertex: centre, up, down, left, right.
SlotOffset(k) ==
    << <<R(0), R(0)>>, <<R(0), R(-t_cfg.shift_value)>>, <<R(0), R(t_cfg.shift_value)>>,
       <<R(-t_cfg.shift_value), R(0)>>, <<R(t_cfg.shift_value), R(0)>> >>[k + 1]

\* 1 or 5 samples per vertex.
SamplesPerVertex == IF t_cfg.use_shifted_points THEN 5 ELSE 1

\* C21: while the loop runs the filter bank, the sample array and the offset
\* list have one element per (vertex, slot), in vertex order: element j
\* (0-based) belongs to vertex j div points_per_vertex, slot j mod
\* points_per_vertex; its offset is that slot's offset and the sample less its
\* offset is that vertex's last position.  So filter j is fed the
\* measurements of sample j, the offset taken from its output is that
\* sample's, and i * points_per_vertex is the centre filter of vertex i.
C21_FilterBankIndex ==
    t_pc = "loop" =>
        LET n == Len(t_cfg.initial_points)
            last == tracked_points[Len(tracked_points)]
        IN  /\ Len(kalman_filters) = n * SamplesPerVertex
            /\ Len(sample_points) = Len(kalman_filters)
            /\ Len(sample_offsets) = Len(kalman_filters)
            /\ \A j \in 0..(Len(kalman_filters) - 1) :
                  /\ sample_offsets[j + 1] = SlotOffset(j % SamplesPerVertex)
                  /\ PtSub(sample_points[j + 1], sample_offsets[j + 1])
                        = last[(j \div SamplesPerVertex) + 1]
            /\ \A i \in 0..(n - 1) : i * SamplesPerVertex < Len(kalman_filters)

\* Two vertices with 5 samples each; in the frame before the last one the
\* first vertex had no valid sample, and it is tracked again in the last one.
C21_Witness ==
    /\ t_pc = "loop"
    /\ t_cfg.use_shifted_points
    /\ Len(t_cfg.initial_points) = 2
    /\ Len(tracked_points) = 3
    /\ t_log.branch = "tracked"
    /\ t_log.valid[1] > 0
    /\ t_log.predicts[6] > 0
    /\ Len(kalman_filters) = 10
    /\ tracked_points[2][1] = t_cfg.initial_points[1]
    /\ tracked_points[2][2] # t_cfg.initial_points[2]

\* C22: the sample array the next optical-flow pass starts from is, for each
\* vertex of the last trajectory entry that is not absent, in order, its
\* filtered position followed (with use_shifted_points) by that position
\* shifted up, down, left and right by shift_value.
C22_SampleRegeneration ==
    t_pc = "loop" =>
        LET last == tracked_points[Len(tracked_points)]
            present == SelectSeq(last, LAMBDA v : v # None)
        IN  /\ Len(sample_points) = Len(present) * SamplesPerVertex
            /\ \A i \in DOMAIN present : \A k \in 0..(SamplesPerVertex - 1) :
                  sample_points[(i - 1) * SamplesPerVertex + k + 1]
                      = PtAdd(present[i], SlotOffset(k))

\* The estimates of the last frame differ from one another (one was far
\* off), and the samples are around their filtered position all the same.
C22_Witness ==
    /\ t_pc = "loop"
    /\ t_cfg.use_shifted_points
    /\ Len(tracked_points) >= 2
    /\ t_log.branch = "tracked"
    /\ Len(t_log.positions[1]) >= 5
    /\ \E k \in DOMAIN t_log.positions[1] : t_log.positions[1][k] # t_log.positions[1][1]
    /\ sample_points[1] = NewPosition(1)
    /\ sample_points[2] = PtAdd(NewPosition(1), <<R(0), R(-5)>>)
    /\ sample_points[5] = PtAdd(NewPosition(1), <<R(5), R(0)>>)
    /\ NewPosition(1) # t_cfg.initial_points[1]

\* C23: with at least one initial point every element of every trajectory
\* entry is a coordinate, no iteration takes the all-lost branch, and the
\* sample array keeps its length.
C23_NoAbsentEntry ==
    Len(t_cfg.initial_points) >= 1 =>
        /\ \A t \in DOMAIN tracked_points : \A i \in DOMAIN tracked_points[t] :
              tracked_points[t][i] # None
        /\ t_log.branch # "all_lost"
        /\ t_pc = "loop" =>
              Len(sample_points) = Len(t_cfg.initial_points) * SamplesPerVertex

\* A run in whose last frame no window found any sample of either vertex.
C23_Witness ==
    /\ t_pc = "done"
    /\ Len(t_cfg.initial_points) = 2
    /\ Len(tracked_points) = 3
    /\ t_log.branch = "tracked"
    /\ t_log.valid = <<0, 0>>
    /\ \A i \in 1..2 : IsCoordinate(tracked_points[3][i])
    /\ Len(sample_points) = 2 * SamplesPerVertex

\* C24: in one frame no filter of the bank runs predict() more than once.
C24_AtMostOnePredict ==
    t_log.branch = "tracked" =>
        \A j \in DOMAIN t_log.predicts : t_log.predicts[j] <= 1

(***************************************************************************)
(* Further properties of the mask operations, over Spec.                   *)
(***************************************************************************)

\* The frames 1..F-1 of a trajectory whose entry holds no absent position.
CompleteFrames(traj) ==
    SelectSeq([t \in 1..(Len(traj) - 1) |-> t],
              LAMBDA t : \A i \in DOMAIN traj[t + 1] : traj[t + 1][i] # None)

\* C15: when track_mask has completed on a mask, the mask's keyframes are its
\* previous first keyframe followed by one keyframe (frame t, points
\* trajectory[t]) for each t in 1..F-1 whose entry has no absent position, and
\* nothing else.
C15_FullTrajectoryReplacement ==
    TrackCompleted =>
        LET kfs == masks[track_call.mask].keyframes
            traj == track_call.tracked_points
            frames == CompleteFrames(traj)
        IN  /\ Len(kfs) = 1 + Len(frames)
            /\ kfs[1] = track_call.keyframes_before[1]
            /\ \A k \in DOMAIN frames :
                  kfs[k + 1] = [frame |-> frames[k], points |-> traj[frames[k] + 1]]

C15_Witness ==
    /\ TrackCompleted
    /\ Len(track_call.keyframes_before) = 3
    /\ track_call.keyframes_before[2].frame = 0
    /\ track_call.keyframes_before[2].points # track_call.keyframes_before[1].points
    /\ Len(track_call.tracked_points) = TotalFrames
    /\ Len(masks[track_call.mask].keyframes) = TotalFrames
    /\ masks[track_call.mask].keyframes[2].frame = 1

C25_ReadYourWrite ==
    [][(active_tool = "keyframe" /\ active_tool' = "none" /\ masks' # masks) =>
        LET i == FirstWithId(masks, masks[current_mask].id)
        IN  /\ Len(masks'[i].keyframes) = Len(masks[i].keyframes) + 1
            /\ ~get_interpolated_points(masks'[i], current_frame_index).raised
            /\ get_interpolated_points(masks'[i], current_frame_index).points
                   = current_points]_vars

\* A mask with two keyframes at one frame, the later one with other points,
\* and a keyframe after them: the later one is what is read at that frame.
C25_Witness ==
    /\ active_tool = "none"
    /\ \E i \in DOMAIN masks :
          LET kfs == masks[i].keyframes
          IN  /\ Len(kfs) = 3
              /\ kfs[1].frame = 0
              /\ kfs[2].frame = 0
              /\ kfs[3].frame > 0
              /\ kfs[2].points # kfs[1].points
              /\ kfs[3].points # kfs[2].points
              /\ get_interpolated_points(masks[i], 0).points = kfs[2].points

\* C26: when masks are added, edited with the keyframe tool and tracked (and
\* never deleted), every keyframe of a mask has as many points as the mask's
\* first keyframe, and interpolation at any frame returns that many points.
C26_VertexCount ==
    \A m \in DOMAIN masks :
        LET kfs == masks[m].keyframes
        IN  /\ \A k \in DOMAIN kfs : Len(kfs[k].points) = Len(kfs[1].points)
            /\ \A f \in 0..TotalFrames :
                  Len(get_interpolated_points(masks[m], f).points) = Len(kfs[1].points)

\* A mask that was tracked and then edited: a keyframe with a dragged vertex
\* next to a tracked one.
C26_Witness ==
    /\ active_tool = "none"
    /\ \E m \in DOMAIN masks :
          LET kfs == masks[m].keyframes
          IN  /\ Len(kfs) >= 3
              /\ \E k \in DOMAIN kfs : kfs[k].points[1] = Pt(7, 7)
              /\ \E k \in DOMAIN kfs :
                    kfs[k].frame = 1 /\ kfs[k].points = ShiftPoints(kfs[1].points, <<1, 0>>)
              /\ \A k \in DOMAIN kfs : Len(kfs[k].points) = 3

\* C27: the edit buffer that activate_keyframe_mask_tool builds is the mask's
\* shape at the viewer's frame, the frame apply_keyframe stores it at.
C27_ActivationAtViewerFrame ==
    [][(active_tool = "none" /\ active_tool' = "keyframe") =>
        current_points' =
            get_interpolated_points(masks[current_mask'], current_frame_index).points]_vars

\* C29: while the keyframe tool is active the stored keyframes of every mask
\* stay as they are in every step (click, drag, release, frame change,
\* cancel) but apply_keyframe, which adds the edit buffer as one keyframe.
C29_EditLeavesStoredData ==
    [][active_tool = "keyframe" =>
        \/ masks' = masks
        \/ /\ active_tool' = "none"
           /\ masks' = add_keyframe(masks, masks[current_mask].id, current_points,
                                    current_frame_index)]_vars

\* A vertex of the edit buffer has been dragged; the buffer came from the
\* interpolation between two keyframes.
C29_Witness ==
    /\ active_tool = "keyframe"
    /\ current_points # original_points
    /\ Len(masks[current_mask].keyframes) >= 2
    /\ masks[current_mask].keyframes[1].frame = 0
    /\ masks[current_mask].keyframes[2].frame > 0
    /\ original_points = masks[current_mask].keyframes[1].points

\* C30: when the tracking configuration dialog is cancelled, or confirmed and
\* the tracker call raises, the keyframes of every mask are as they were
\* when track_mask was called.
C30_TrackMaskFailureLeavesKeyframes ==
    [][(track_call # NoTrackCall /\ track_call.stage = "config"
            /\ (track_call' = NoTrackCall \/ track_call'.stage = "failed")) =>
        /\ masks' = masks
        /\ masks'[track_call.mask].keyframes = track_call.keyframes_before]_vars

\* The "Tracking failed" message box is open on a mask with keyframes beyond
\* the first one.
C30_Witness ==
    /\ track_call # NoTrackCall
    /\ track_call.stage = "failed"
    /\ Len(track_call.keyframes_before) >= 2
    /\ track_call.keyframes_before[2].points # track_call.keyframes_before[1].points
    /\ masks[track_call.mask].keyframes = track_call.keyframes_before

(***************************************************************************)
(* SpecViewer: MediaViewer's frame position.  The main thread runs the     *)
(* handlers of the play/pause button, the slider and the "<" and ">"       *)
(* buttons; video_playback_thread runs beside it.  Both work on            *)
(* video_capture and current_frame_index without a lock, so each statement *)
(* is a step of its own.                                                   *)
(***************************************************************************)
\* The exploration stops counting frames at this index (the lost update of
\* ThreadStore against seek_video lets the index grow without limit).
MaxFrameIndex == 4

\* The application state the viewer does not touch.
editVars == <<masks, active_tool, current_mask, current_points, original_points,
              current_points_owner, editing_mask_id, selected_point_index, current_frame,
              canvas_masks, track_call>>

\* load_media on the video: stop_video has joined the playback thread, then
\* load_video opens the capture, reads the first frame and starts the thread
\* anew, paused (media_viewer.py lines 51-68, 90-134).
LoadVideo ==
    /\ seek_pc = <<"idle">>
    /\ thread_pc = <<"loop">>
    /\ current_frame_index' = 0
    /\ video_pos' = PosAfterRead(0)
    /\ playing' = FALSE
    /\ UNCHANGED <<seek_pc, thread_pc, editVars, interpVars, trackVars>>

\* play_video (the thread is alive already).
PlayVideo ==
    /\ seek_pc = <<"idle">>
    /\ ~playing
    /\ playing' = TRUE
    /\ UNCHANGED <<current_frame_index, video_pos, seek_pc, thread_pc, editVars,
                   interpVars, trackVars>>

\* pause_video
PauseVideo ==
    /\ seek_pc = <<"idle">>
    /\ playing
    /\ playing' = FALSE
    /\ UNCHANGED <<current_frame_index, video_pos, seek_pc, thread_pc, editVars,
                   interpVars, trackVars>>

\* The slider: seek_video(frame_index), up to the clamp of line 185.
OnSliderSeek ==
    /\ seek_pc = <<"idle">>
    /\ \E frame_index \in -1..TotalFrames :
          seek_pc' = <<"set", ClampFrameIndex(frame_index)>>
    /\ UNCHANGED <<current_frame_index, video_pos, playing, thread_pc, editVars,
                   interpVars, trackVars>>

\* next_frame and prev_frame: pause_video(), then seek_video is called with
\* current_frame_index + 1 or - 1.
NextFrame ==
    /\ seek_pc = <<"idle">>
    /\ playing' = FALSE
    /\ seek_pc' = <<"arg", 1>>
    /\ UNCHANGED <<current_frame_index, video_pos, thread_pc, editVars, interpVars,
                   trackVars>>

PrevFrame ==
    /\ seek_pc = <<"idle">>
    /\ playing' = FALSE
    /\ seek_pc' = <<"arg", -1>>
    /\ UNCHANGED <<current_frame_index, video_pos, thread_pc, editVars, interpVars,
                   trackVars>>

\* The argument self.current_frame_index + 1 (- 1) is evaluated and clamped.
SeekVideoArg ==
    /\ seek_pc[1] = "arg"
    /\ seek_pc' = <<"set", ClampFrameIndex(current_frame_index + seek_pc[2])>>
    /\ UNCHANGED <<current_frame_index, video_pos, playing, thread_pc, editVars,
                   interpVars, trackVars>>

\* self.video_capture.set(cv2.CAP_PROP_POS_FRAMES, frame_index)
SeekVideoSet ==
    /\ seek_pc[1] = "set"
    /\ video_pos' = seek_pc[2]
    /\ seek_pc' = <<"assign", seek_pc[2]>>
    /\ UNCHANGED <<current_frame_index, playing, thread_pc, editVars, interpVars,
                   trackVars>>

\* self.current_frame_index = frame_index
SeekVideoAssign ==
    /\ seek_pc[1] = "assign"
    /\ current_frame_index' = seek_pc[2]
    /\ seek_pc' = <<"read">>
    /\ UNCHANGED <<video_pos, playing, thread_pc, editVars, interpVars, trackVars>>

\* ret, frame = self.video_capture.read(), and seek_video returns.
SeekVideoRead ==
    /\ seek_pc[1] = "read"
    /\ video_pos' = PosAfterRead(video_pos)
    /\ seek_pc' = <<"idle">>
    /\ UNCHANGED <<current_frame_index, playing, thread_pc, editVars, interpVars,
                   trackVars>>

\* video_playback_thread, line 209: "if self.playing and self.video_capture".
ThreadCheck ==
    /\ thread_pc = <<"loop">>
    /\ playing
    /\ thread_pc' = <<"read">>
    /\ UNCHANGED <<current_frame_index, video_pos, playing, seek_pc, editVars,
                   interpVars, trackVars>>

\* Line 211: ret, frame = self.video_capture.read()
ThreadRead ==
    /\ thread_pc = <<"read">>
    /\ video_pos' = PosAfterRead(video_pos)
    /\ thread_pc' = IF video_pos < TotalFrames THEN <<"load">> ELSE <<"rewind">>
    /\ UNCHANGED <<current_frame_index, playing, seek_pc, editVars, interpVars,
                   trackVars>>

\* Line 215: self.video_capture.set(cv2.CAP_PROP_POS_FRAMES, 0)
ThreadRewind ==
    /\ thread_pc = <<"rewind">>
    /\ video_pos' = 0
    /\ thread_pc' = <<"reset">>
    /\ UNCHANGED <<current_frame_index, playing, seek_pc, editVars, interpVars,
                   trackVars>>

\* Line 216: self.current_frame_index = 0; continue
ThreadReset ==
    /\ thread_pc = <<"reset">>
    /\ current_frame_index' = 0
    /\ thread_pc' = <<"loop">>
    /\ UNCHANGED <<video_pos, playing, seek_pc, editVars, interpVars, trackVars>>

\* Line 220, self.current_frame_index += 1: the attribute is read ...
ThreadLoad ==
    /\ thread_pc = <<"load">>
    /\ thread_pc' = <<"store", current_frame_index>>
    /\ UNCHANGED <<current_frame_index, video_pos, playing, seek_pc, editVars,
                   interpVars, trackVars>>

\* ... and the sum is stored; the frame is handed to the main thread and the
\* thread sleeps.
ThreadStore ==
    /\ thread_pc[1] = "store"
    /\ thread_pc[2] + 1 <= MaxFrameIndex
    /\ current_frame_index' = thread_pc[2] + 1
    /\ thread_pc' = <<"loop">>
    /\ UNCHANGED <<video_pos, playing, seek_pc, editVars, interpVars, trackVars>>

NextViewer ==
    \/ LoadVideo
    \/ PlayVideo
    \/ PauseVideo
    \/ OnSliderSeek
    \/ NextFrame
    \/ PrevFrame
    \/ SeekVideoArg
    \/ SeekVideoSet
    \/ SeekVideoAssign
    \/ SeekVideoRead
    \/ ThreadCheck
    \/ ThreadRead
    \/ ThreadRewind
    \/ ThreadReset
    \/ ThreadLoad
    \/ ThreadStore

SpecViewer == InitApp /\ [][NextViewer]_vars

\* C28: current_frame_index is a frame number of the video, 0..total_frames-1.
C28_FrameIndexInRange ==
    current_frame_index \in 0..(TotalFrames - 1)

(***************************************************************************)
(* SpecMasks: Application.add_mask, add_keyframe and delete_mask called in *)
(* any order on the masks of one media item.                               *)
(***************************************************************************)
MaxMaskList == 3

\* The frame argument of add_keyframe.
ListFrames == {1, 2}

CallAddMask ==
    /\ Len(masks) < MaxMaskList
    /\ \E points \in DrawnPolygons : masks' = add_mask(masks, points)
    /\ canvas_masks' = draw_all_masks(masks', editing_mask_id, current_frame)
    /\ UNCHANGED <<active_tool, current_mask, current_points, original_points,
                   current_points_owner, editing_mask_id, selected_point_index,
                   current_frame, current_frame_index, track_call>>
    /\ UNCHANGED <<viewerVars, interpVars, trackVars>>

CallAddKeyframe ==
    /\ \E i \in DOMAIN masks : \E points \in DrawnPolygons : \E frame \in ListFrames :
          /\ Len(masks[FirstWithId(masks, masks[i].id)].keyframes) < MaxKeyframes
          /\ masks' = add_keyframe(masks, masks[i].id, points, frame)
    /\ canvas_masks' = draw_all_masks(masks', editing_mask_id, current_frame)
    /\ UNCHANGED <<active_tool, current_mask, current_points, original_points,
                   current_points_owner, editing_mask_id, selected_point_index,
                   current_frame, current_frame_index, track_call>>
    /\ UNCHANGED <<viewerVars, interpVars, trackVars>>

CallDeleteMask ==
    /\ \E i \in DOMAIN masks : masks' = delete_mask(masks, masks[i].id)
    /\ canvas_masks' = draw_all_masks(masks', editing_mask_id, current_frame)
    /\ UNCHANGED <<active_tool, current_mask, current_points, original_points,
                   current_points_owner, editing_mask_id, selected_point_index,
                   current_frame, current_frame_index, track_call>>
    /\ UNCHANGED <<viewerVars, interpVars, trackVars>>

NextMasks ==
    \/ CallAddMask
    \/ CallAddKeyframe
    \/ CallDeleteMask

SpecMasks == InitApp /\ [][NextMasks]_vars

\* C17: no two masks of the media item have the same id.
C17_MaskIdsUnique ==
    \A a, b \in DOMAIN masks : a # b => masks[a].id # masks[b].id

====
